---- MODULE Spec2Model ----
(***************************************************************************)
(* Model of AppComponent (app.component.ts): a PDF page viewer with a      *)
(* mouse-driven crop.  The component's fields are the variables; every DOM *)
(* event handler and every promise continuation is one action.             *)
(***************************************************************************)
EXTENDS Integers, Sequences, FiniteSets, TLC

\* ---------------------------------------------------------------- bounds
MaxPages   == 2   \* largest numPages of a file the user picks
MaxLoads   == 2   \* file selections in one run
MaxTasks   == 2   \* renderPage calls in flight at once
MaxCoord   == 1   \* pointer offsets range over 0..MaxCoord
MaxCrops   == 2   \* cropImage calls (each logs an error or makes an image)

Coords == 0..MaxCoord

\* ---------------------------------------------------------------- state
VARIABLES
  pdfDoc,        \* this.pdfDoc: [id, numPages]; id 0 = undefined
  currentPage,   \* this.currentPage
  totalPages,    \* this.totalPages
  loads,         \* file selections whose read / getDocument is pending
  nLoads,        \* number of files picked so far (identifies documents)
  tasks,         \* renderPage calls suspended at an await
  canvas,        \* bitmap of this.canvas (the offscreen canvas)
  pdfCanvas,     \* the visible canvas: [bitmap, selection]
  cropStartX, cropStartY, cropWidth, cropHeight, isSelecting,
  pendingImages, \* Image objects whose onload has not run yet
  body,          \* number of cropped canvases (each with its download link)
                 \* appended to document.body
  consoleErrors, \* number of console.error calls
  unhandled      \* kinds of uncaught errors and unhandled rejections seen

nav  == <<pdfDoc, currentPage, totalPages, loads, nLoads, tasks, canvas>>
crop == <<cropStartX, cropStartY, cropWidth, cropHeight, isSelecting>>
out  == <<pendingImages, body, consoleErrors>>
vars == <<nav, pdfCanvas, crop, out, unhandled>>

NoDoc   == [id |-> 0, numPages |-> 0]
Blank   == <<"blank", 0, 0>>
Garbled == <<"garbled", 0, 0>>
PageBitmap(doc, n) == <<"page", doc, n>>

Abs(n) == IF n < 0 THEN -n ELSE n

\* indices of a sequence, and the sequence without index i
RemoveAt(s, i) == [j \in 1..(Len(s) - 1) |-> IF j < i THEN s[j] ELSE s[j + 1]]

Rendering(ts) == {i \in 1..Len(ts) : ts[i].pc = "render"}

Init ==
  /\ pdfDoc = NoDoc
  /\ currentPage = 1
  /\ totalPages = 0
  /\ loads = {}
  /\ nLoads = 0
  /\ tasks = <<>>
  /\ canvas = Blank
  /\ pdfCanvas = [bitmap |-> Blank, selection |-> FALSE]
  /\ cropStartX = 0 /\ cropStartY = 0 /\ cropWidth = 0 /\ cropHeight = 0
  /\ isSelecting = FALSE
  /\ pendingImages = <<>>
  /\ body = 0
  /\ consoleErrors = 0
  /\ unhandled = {}

\* ------------------------------------------------------------ page render
\* renderPage without the upper bound of its range check.
renderPage_NoUpperBound(pageNumber, s) ==
  IF pageNumber < 1
  THEN s
  ELSE IF s.pdfDoc = [id |-> 0, numPages |-> 0]
  THEN [s EXCEPT !.currentPage = pageNumber,
                 !.unhandled = @ \cup {"TypeError"}]
  ELSE [s EXCEPT !.currentPage = pageNumber,
                 !.tasks = Append(s.tasks,
                     [doc |-> s.pdfDoc.id, page |-> pageNumber,
                      pc |-> "getPage", clean |-> TRUE])]

\* renderPage up to its first await: the bounds check, the assignment of
\* currentPage and the getPage call (a TypeError when this.pdfDoc is still
\* undefined).  s = [currentPage, totalPages, pdfDoc, tasks, unhandled]; the
\* result is the same record after the call.
renderPage(pageNumber, s) ==
  IF pageNumber < 1 \/ pageNumber > s.totalPages
  THEN s
  ELSE IF s.pdfDoc = NoDoc
  THEN [s EXCEPT !.currentPage = pageNumber,
                 !.unhandled = @ \cup {"TypeError"}]
  ELSE [s EXCEPT !.currentPage = pageNumber,
                 !.tasks = Append(s.tasks,
                     [doc |-> s.pdfDoc.id, page |-> pageNumber,
                      pc |-> "getPage", clean |-> TRUE])]

State == [currentPage |-> currentPage, totalPages |-> totalPages,
          pdfDoc |-> pdfDoc, tasks |-> tasks, unhandled |-> unhandled]

SetState(s) ==
  /\ currentPage' = s.currentPage
  /\ totalPages' = s.totalPages
  /\ pdfDoc' = s.pdfDoc
  /\ tasks' = s.tasks
  /\ unhandled' = s.unhandled

displayCanvas(bitmap) == [bitmap |-> bitmap, selection |-> FALSE]

goToPreviousPageEff(s) ==
  IF s.currentPage > 1 THEN renderPage(s.currentPage - 1, s) ELSE s

goToNextPageEff(s) ==
  IF s.currentPage < s.totalPages THEN renderPage(s.currentPage + 1, s) ELSE s

\* ------------------------------------------------------------ document load
\* A file is picked.  fileReader.onload does nothing but hand the bytes to
\* getDocument, so the read and the parse are one pending stage here.
loadPdf(hasFile, numPages) ==
  /\ nLoads < MaxLoads
  /\ IF hasFile
     THEN /\ nLoads' = nLoads + 1
          /\ loads' = loads \cup {[id |-> nLoads + 1, numPages |-> numPages]}
     ELSE UNCHANGED <<nLoads, loads>>
  /\ UNCHANGED <<pdfDoc, currentPage, totalPages, tasks, canvas, pdfCanvas,
                 crop, out, unhandled>>

getDocumentDone(l) ==
  /\ l \in loads
  /\ Len(tasks) < MaxTasks
  /\ loads' = loads \ {l}
  /\ LET d == [id |-> l.id, numPages |-> l.numPages]
         s == [State EXCEPT !.pdfDoc = d, !.totalPages = d.numPages]
     IN SetState(renderPage(s.currentPage, s))
  /\ UNCHANGED <<nLoads, canvas, pdfCanvas, crop, out>>

getDocumentFail(l) ==
  /\ l \in loads
  /\ loads' = loads \ {l}
  /\ unhandled' = unhandled \cup {"getDocument"}
  /\ UNCHANGED <<pdfDoc, currentPage, totalPages, nLoads, tasks, canvas,
                 pdfCanvas, crop, out>>

\* ------------------------------------------------------------ navigation
goToPreviousPage ==
  /\ Len(tasks) < MaxTasks
  /\ SetState(goToPreviousPageEff(State))
  /\ UNCHANGED <<loads, nLoads, canvas, pdfCanvas, crop, out>>

goToNextPage ==
  /\ Len(tasks) < MaxTasks
  /\ SetState(goToNextPageEff(State))
  /\ UNCHANGED <<loads, nLoads, canvas, pdfCanvas, crop, out>>

\* getPage resolved: the canvas is resized (which clears it) and page.render
\* is called on the shared context.  A render already drawing into that
\* canvas is spoilt.  The library either refuses a second render on a canvas
\* in use (the call rejects, nobody catches it) or lets both draw.
getPageDone(i, refuse) ==
  /\ i \in 1..Len(tasks) /\ tasks[i].pc = "getPage"
  /\ LET busy == Rendering(tasks) # {}
         spoil == [j \in 1..Len(tasks) |->
                     IF tasks[j].pc = "render"
                     THEN [tasks[j] EXCEPT !.clean = FALSE] ELSE tasks[j]]
     IN /\ refuse => busy
        /\ canvas' = Blank
        /\ IF refuse
           THEN /\ tasks' = RemoveAt(spoil, i)
                /\ unhandled' = unhandled \cup {"render"}
           ELSE /\ tasks' = [spoil EXCEPT ![i].pc = "render",
                                          ![i].clean = ~busy]
                /\ UNCHANGED unhandled
  /\ UNCHANGED <<pdfDoc, currentPage, totalPages, loads, nLoads, pdfCanvas,
                 crop, out>>

renderDone(i) ==
  /\ i \in 1..Len(tasks) /\ tasks[i].pc = "render"
  /\ canvas' = IF tasks[i].clean
               THEN PageBitmap(tasks[i].doc, tasks[i].page) ELSE Garbled
  /\ pdfCanvas' = displayCanvas(canvas')
  /\ tasks' = RemoveAt(tasks, i)
  /\ UNCHANGED <<pdfDoc, currentPage, totalPages, loads, nLoads, crop, out,
                 unhandled>>

\* ------------------------------------------------------------ crop gesture
\* The crop fields as one record, and the handlers' effect on it.
Crop == [cropStartX |-> cropStartX, cropStartY |-> cropStartY,
         cropWidth |-> cropWidth, cropHeight |-> cropHeight,
         isSelecting |-> isSelecting]

SetCrop(c) ==
  /\ cropStartX' = c.cropStartX
  /\ cropStartY' = c.cropStartY
  /\ cropWidth' = c.cropWidth
  /\ cropHeight' = c.cropHeight
  /\ isSelecting' = c.isSelecting

startCropEff(x, y, c) ==
  [c EXCEPT !.isSelecting = TRUE, !.cropStartX = x, !.cropStartY = y,
            !.cropWidth = 0, !.cropHeight = 0]

startCrop(x, y) ==
  /\ SetCrop(startCropEff(x, y, Crop))
  /\ UNCHANGED <<nav, pdfCanvas, out, unhandled>>

\* onMouseMove without its isSelecting test.
onMouseMoveEff_NoGuard(x, y, c) ==
  [c EXCEPT !.cropWidth = x - c.cropStartX, !.cropHeight = y - c.cropStartY]

onMouseMoveEff(x, y, c) ==
  IF c.isSelecting
  THEN [c EXCEPT !.cropWidth = x - c.cropStartX,
                 !.cropHeight = y - c.cropStartY]
  ELSE c

redrawCanvas(offscreen) == [bitmap |-> offscreen, selection |-> FALSE]

drawSelectionArea(visible) == [visible EXCEPT !.selection = TRUE]

onMouseMove(x, y) ==
  /\ SetCrop(onMouseMoveEff(x, y, Crop))
  /\ pdfCanvas' = IF isSelecting
                  THEN drawSelectionArea(redrawCanvas(canvas))
                  ELSE pdfCanvas
  /\ UNCHANGED <<nav, out, unhandled>>

\* CanvasRenderingContext2D.getImageData: a negative sw or sh selects the
\* rectangle on the other side of (sx, sy); the data is |sw| x |sh|.
getImageData(sx, sy, sw, sh) ==
  [x |-> IF sw < 0 THEN sx + sw ELSE sx,
   y |-> IF sh < 0 THEN sy + sh ELSE sy,
   w |-> Abs(sw), h |-> Abs(sh)]

\* cropImage that never sizes croppedCanvas (a new canvas is 300 x 150).
cropImage_DefaultSize(sx, sy, w, h) ==
  IF w <= 0 \/ h <= 0
  THEN [errors |-> 1, images |-> <<>>]
  ELSE [errors |-> 0,
        images |-> <<[width |-> 300, height |-> 150,
                      region |-> getImageData(sx, sy, w, h)]>>]

\* cropImage: the console.error calls it makes and the Image objects it
\* hands to displayCroppedImage (a data URL of croppedCanvas).
cropImage(sx, sy, w, h) ==
  LET croppedWidth  == Abs(w)
      croppedHeight == Abs(h)
  IN IF w <= 0 \/ h <= 0
     THEN [errors |-> 1, images |-> <<>>]
     ELSE [errors |-> 0,
           images |-> <<[width |-> croppedWidth, height |-> croppedHeight,
                         region |-> getImageData(sx, sy, w, h)]>>]

\* endCrop without its early return for an empty rectangle.
endCropEff_NoZeroCheck(sx, sy, w, h) == cropImage(sx, sy, w, h)

\* endCrop: what it logs and which images it produces
endCropEff(sx, sy, w, h) ==
  IF w = 0 \/ h = 0
  THEN [errors |-> 0, images |-> <<>>]
  ELSE cropImage(sx, sy, w, h)

endCrop ==
  LET r == endCropEff(cropStartX, cropStartY, cropWidth, cropHeight)
  IN /\ consoleErrors + Len(pendingImages) + body
          + r.errors + Len(r.images) <= MaxCrops
     /\ isSelecting' = FALSE
     /\ consoleErrors' = consoleErrors + r.errors
     /\ pendingImages' = pendingImages \o r.images
     /\ UNCHANGED <<nav, pdfCanvas, cropStartX, cropStartY, cropWidth,
                    cropHeight, body, unhandled>>

\* img.onload of displayCroppedImage: a canvas of the image's size and a
\* download link for the same data URL are appended to the document body.
imgOnload(i) ==
  /\ i \in 1..Len(pendingImages)
  /\ body' = body + 1
  /\ pendingImages' = RemoveAt(pendingImages, i)
  /\ UNCHANGED <<nav, pdfCanvas, crop, consoleErrors, unhandled>>

\* ------------------------------------------------------------ specification
\* The viewer: file selection, navigation and the promise continuations of
\* the rendering library.
Next ==
  \/ \E hasFile \in BOOLEAN, n \in 1..MaxPages : loadPdf(hasFile, n)
  \/ \E l \in loads : getDocumentDone(l)
  \/ \E l \in loads : getDocumentFail(l)
  \/ goToPreviousPage
  \/ goToNextPage
  \/ \E i \in 1..MaxTasks, refuse \in BOOLEAN : getPageDone(i, refuse)
  \/ \E i \in 1..MaxTasks : renderDone(i)

Spec == Init /\ [][Next]_vars

\* The crop gesture, started on a page that is displayed and at rest: no
\* document yet, or page p of a document of n pages after its render has
\* completed.
InitCrop ==
  /\ \E loaded \in BOOLEAN :
       /\ pdfDoc = IF loaded THEN [id |-> 1, numPages |-> MaxPages] ELSE NoDoc
       /\ totalPages = pdfDoc.numPages
       /\ currentPage = IF loaded THEN MaxPages ELSE 1
       /\ nLoads = pdfDoc.id
       /\ canvas = IF loaded THEN PageBitmap(1, currentPage) ELSE Blank
       /\ pdfCanvas = displayCanvas(canvas)
  /\ loads = {}
  /\ tasks = <<>>
  /\ cropStartX = 0 /\ cropStartY = 0 /\ cropWidth = 0 /\ cropHeight = 0
  /\ isSelecting = FALSE
  /\ pendingImages = <<>>
  /\ body = 0
  /\ consoleErrors = 0
  /\ unhandled = {}

NextCrop ==
  \/ \E x \in Coords, y \in Coords : startCrop(x, y)
  \/ \E x \in Coords, y \in Coords : onMouseMove(x, y)
  \/ endCrop
  \/ \E i \in 1..MaxCrops : imgOnload(i)

SpecCrop == InitCrop /\ [][NextCrop]_vars

\* ================================================================ claims
\* Steps of the crop gesture, recognised by what they change.
GestureEnds == isSelecting /\ ~isSelecting'
ImageCreated == Len(pendingImages') = Len(pendingImages) + 1
NewImage == pendingImages'[Len(pendingImages')]
DocumentLoaded == pdfDoc' # pdfDoc
PageStateUnchanged == UNCHANGED <<currentPage, totalPages, canvas>>

\* ---- C1: out-of-range navigation is a no-op.  goToPreviousPage on page 1,
\* goToNextPage on the last page, either of them before a document is
\* loaded, and renderPage with a page number outside 1..totalPages leave the
\* page index alone, start no render and raise no error; and a navigation
\* step never moves the index out of 1..totalPages.
C1_NoOpHere ==
  /\ currentPage = 1 => goToPreviousPageEff(State) = State
  /\ currentPage = totalPages => goToNextPageEff(State) = State
  /\ pdfDoc = NoDoc => /\ goToPreviousPageEff(State) = State
                       /\ goToNextPageEff(State) = State
  /\ \A n \in (-1)..(MaxPages + 2) :
       (n < 1 \/ n > totalPages) => renderPage(n, State) = State

C1_NavStep ==
  (~DocumentLoaded /\ (currentPage' # currentPage \/ Len(tasks') > Len(tasks)))
    => /\ currentPage' \in {currentPage - 1, currentPage + 1}
       /\ currentPage' >= 1 /\ currentPage' <= totalPages
       /\ unhandled' = unhandled

C1_OutOfRangeNavigationIsNoOp == []C1_NoOpHere /\ [][C1_NavStep]_vars

\* the last page of a loaded document is displayed and nothing is pending
C1_Witness ==
  /\ pdfDoc # NoDoc /\ totalPages >= 2 /\ currentPage = totalPages
  /\ tasks = <<>> /\ pdfCanvas.bitmap = PageBitmap(pdfDoc.id, currentPage)

\* ---- C2: every completed document load resets the page index: after it
\* currentPage is 1, totalPages is the new document's page count and the
\* render that was started is that of the new document's page 1.
C2_LoadResetsPageIndex ==
  [][DocumentLoaded =>
       /\ currentPage' = 1
       /\ totalPages' = pdfDoc'.numPages
       /\ tasks' = Append(tasks, [doc |-> pdfDoc'.id, page |-> 1,
                                  pc |-> "getPage", clean |-> TRUE])]_vars

\* ---- C3: a gesture that ends with width # 0 and height # 0, whatever the
\* signs, exports a cropped image.
C3_NonZeroRectangleExports ==
  [][(GestureEnds /\ cropWidth # 0 /\ cropHeight # 0) => ImageCreated]_vars

\* ---- C4 as stated: a gesture that ends without an exported image logs
\* exactly one error, produces no image and no link, and leaves the page
\* index, the page count and the offscreen bitmap unchanged.
C4_InvalidGeometryLogged ==
  [][(GestureEnds /\ ~ImageCreated) =>
       /\ consoleErrors' = consoleErrors + 1
       /\ pendingImages' = pendingImages /\ body' = body
       /\ PageStateUnchanged]_vars

\* ---- C4 amended: a gesture that ends without an exported image produces
\* no image and no link and leaves the page state unchanged; it logs exactly
\* one error when width and height are both non-zero, and nothing when the
\* width or the height is zero.  Nothing else ever logs an error.
C4_Step ==
  /\ (GestureEnds /\ ~ImageCreated) =>
       /\ consoleErrors' = consoleErrors
                           + (IF cropWidth = 0 \/ cropHeight = 0 THEN 0 ELSE 1)
       /\ pendingImages' = pendingImages /\ body' = body
       /\ PageStateUnchanged
  /\ consoleErrors' # consoleErrors =>
       /\ consoleErrors' = consoleErrors + 1
       /\ cropWidth # 0 /\ cropHeight # 0
       /\ pendingImages' = pendingImages /\ body' = body
       /\ PageStateUnchanged

C4_AbortLogsUnlessEmpty == [][C4_Step]_vars

\* gestures have ended both ways: one rejected rectangle has been logged
\* and the gesture at hand has just ended empty
C4_Witness ==
  /\ consoleErrors = 1 /\ ~isSelecting /\ cropWidth = 0 /\ cropHeight # 0
  /\ pendingImages = <<>> /\ body = 0

\* ---- C5: an exported image is |width| x |height| of the rectangle at the
\* end of the gesture, its pixels are a region of that size, and the drag
\* start point is a corner of that region; once loaded it is appended to
\* the page with its link.
C5_Step ==
  /\ ImageCreated =>
       /\ NewImage.width = Abs(cropWidth)
       /\ NewImage.height = Abs(cropHeight)
       /\ NewImage.region.w = NewImage.width
       /\ NewImage.region.h = NewImage.height
       /\ cropStartX \in {NewImage.region.x,
                          NewImage.region.x + NewImage.region.w}
       /\ cropStartY \in {NewImage.region.y,
                          NewImage.region.y + NewImage.region.h}
       /\ SubSeq(pendingImages', 1, Len(pendingImages)) = pendingImages
       /\ body' = body
  /\ Len(pendingImages') < Len(pendingImages) => body' = body + 1
  /\ body' # body => Len(pendingImages') = Len(pendingImages) - 1

C5_ExportHasRectangleSize == [][C5_Step]_vars

\* an image of a rectangle has been exported and has reached the page
C5_Witness ==
  /\ body >= 1 /\ pendingImages # <<>>
  /\ pendingImages[1].width = cropWidth /\ pendingImages[1].height = cropHeight

\* ---- C6: an endCrop with no gesture in progress (no startCrop since the
\* previous endCrop) exports nothing.
C6_ConsumedOnce == [][~isSelecting => ~ImageCreated]_vars

\* ---- C7: at most one getPage/render call is pending at a time, so no two
\* renders draw into the offscreen canvas at once.
C7_OneRenderAtATime ==
  /\ Len(tasks) <= 1
  /\ Cardinality(Rendering(tasks)) <= 1

\* ---- C8: the crop rectangle changes only during a drag.  While a gesture
\* is in progress onMouseMove(x, y) sets width = x - start.x and height =
\* y - start.y and keeps the start point; with no gesture in progress it
\* changes nothing; startCrop resets width and height to 0.
C8_HandlersHere ==
  \A x \in Coords, y \in Coords :
    LET m == onMouseMoveEff(x, y, Crop)
        st == startCropEff(x, y, Crop)
    IN /\ isSelecting =>
            /\ m.cropWidth = x - cropStartX /\ m.cropHeight = y - cropStartY
            /\ m.cropStartX = cropStartX /\ m.cropStartY = cropStartY
            /\ m.isSelecting
       /\ ~isSelecting => m = Crop
       /\ st.cropWidth = 0 /\ st.cropHeight = 0 /\ st.isSelecting
       /\ st.cropStartX = x /\ st.cropStartY = y

C8_Step ==
  /\ (~isSelecting /\ ~isSelecting') =>
       UNCHANGED <<cropStartX, cropStartY, cropWidth, cropHeight, pdfCanvas>>
  /\ (~isSelecting /\ isSelecting') => cropWidth' = 0 /\ cropHeight' = 0
  /\ (isSelecting /\ isSelecting') =>
       \/ cropWidth' = 0 /\ cropHeight' = 0
       \/ /\ cropStartX' = cropStartX /\ cropStartY' = cropStartY
          /\ cropWidth' + cropStartX \in Coords
          /\ cropHeight' + cropStartY \in Coords
  /\ GestureEnds =>
       UNCHANGED <<cropStartX, cropStartY, cropWidth, cropHeight>>

C8_RectangleChangesOnlyInDrag == []C8_HandlersHere /\ [][C8_Step]_vars

\* a drag up and to the left of its start point is in progress
C8_Witness ==
  /\ isSelecting /\ cropWidth < 0 /\ cropHeight < 0
  /\ cropStartX > 0 /\ pdfCanvas.selection

\* ---- C9: once no getPage/render call is pending, the offscreen and the
\* visible canvas show page currentPage of the loaded document.
C9_DisplayedPageIsCurrentPage ==
  (pdfDoc # NoDoc /\ tasks = <<>>) =>
     /\ canvas = PageBitmap(pdfDoc.id, currentPage)
     /\ pdfCanvas.bitmap = PageBitmap(pdfDoc.id, currentPage)

\* ---- C10: while a document is loaded, 1 <= currentPage <= totalPages.
C10_PageIndexInRange ==
  totalPages >= 1 => (1 <= currentPage /\ currentPage <= totalPages)

====
